---- MODULE Spec2Model ----
(***************************************************************************)
(* Model of jlcpcb_scraper: the paginated sync loop JlcpcbScraper.get_parts *)
(* (scraper.py), the token handshake _obtain_token, the page application   *)
(* extract_and_process_components, and the main script (main.py) that      *)
(* seeds the Category Index and drives the phases: the eviction sweep and  *)
(* the normalization pass over batches of parts, and get_part_price.       *)
(***************************************************************************)
EXTENDS Integers, Sequences, FiniteSets, TLC

(***************************************************************************)
(* Bounds of the model.                                                     *)
(***************************************************************************)
\* longest catalog (number of pages the vendor API serves before its end)
MaxPages == 2
\* most page requests one run of get_parts submits
MaxRequests == 3
\* the clock stops advancing after MaxTicks quanta
MaxTicks == 3
\* largest parts table the normalization pass is run on
MaxParts == 201
\* longest price string of a component record
MaxPriceLen == 5

(***************************************************************************)
(* Program constants.                                                       *)
(***************************************************************************)
\* timedelta(seconds=1800): the local validity window of a token
TokenLifetime == 1800
\* the success code of the vendor API (resp.status_code, data["code"], response.get("code"))
SuccessCode == 200
\* None, as the cursor last_key and as the token before the first handshake;
\* the cursor is tested by truthiness ("if last_key"), so 0 is also the falsy cursor
None == 0
\* the id of a Category object that no flush has given a primary key
NoId == 0

\* one quantum of the clock, in seconds: half a token lifetime
TickSeconds == TokenLifetime \div 2

(***************************************************************************)
(* The vendor API: component records, pages, responses.                    *)
(***************************************************************************)
Rec(l, s, c1, c2) == [lcscPart |-> l, stock |-> s, firstCategory |-> c1, secondCategory |-> c2]

\* a response whose body is JSON: {code, data: {componentInfos, lastKey}}
Json(code, infos) == [kind |-> "json", code |-> code, infos |-> infos]
\* the request raised (requests.ConnectionError after the adapter's retries)
NetErr == [kind |-> "neterr", code |-> 0, infos |-> <<>>]
\* a response without a JSON body (an HTML error page of a non-success status)
NoJson == [kind |-> "nojson", code |-> 0, infos |-> <<>>]

\* pages with a part in stock: the loop goes on to the next page after them
StockedPages ==
  { Json(SuccessCode, << Rec("C1", 5, "Passive", "Res"), Rec("C2", 3, "Passive", "Res") >>),
    Json(SuccessCode, << Rec("C1", 7, "Passive", "Cap"), Rec("C2", 0, "Passive", "Res") >>) }

\* the page bodies a catalog is built from: the stocked pages, a page with no
\* part in stock, an application-level error, and the two fetch failures
PagePool ==
  StockedPages \cup
  { Json(SuccessCode, << Rec("C2", 0, "Chips", "Cap") >>),
    Json(500, << Rec("C2", 3, "Passive", "Res") >>),
    NetErr,
    NoJson }

\* the catalogs: 1..MaxPages page bodies. The cursor moves past a page only
\* when a part of it was accepted, so the page after any other one is never
\* asked for: such a page is the last of its catalog.
Catalogs ==
  UNION { { c \in [1..n -> PagePool] : \A k \in 1..(n - 1) : c[k] \in StockedPages }
          : n \in 1..MaxPages }

\* POST /components {lastKey?}: no body asks for the first page, the cursor of
\* page k asks for page k+1; past the last page the API answers an empty page
ApiResponse(cat, key) ==
  IF key + 1 \in DOMAIN cat
    THEN [kind |-> cat[key + 1].kind, code |-> cat[key + 1].code,
          infos |-> cat[key + 1].infos, lastKey |-> key + 1]
    ELSE [kind |-> "json", code |-> SuccessCode, infos |-> <<>>, lastKey |-> None]

\* an API whose cursor never moves: it answers every request with its first
\* page, and as lastKey the cursor that was sent (its first cursor when none
\* was sent), or no lastKey at all
StuckResponse(mode, cat, key) ==
  [kind |-> cat[1].kind, code |-> cat[1].code, infos |-> cat[1].infos,
   lastKey |-> IF mode = "none" THEN None ELSE IF key = None THEN 1 ELSE key]

\* the answer of POST /components to a request with cursor key
ApiReply(mode, cat, key) ==
  IF mode = "moves" THEN ApiResponse(cat, key) ELSE StuckResponse(mode, cat, key)

(***************************************************************************)
(* The Category Index (self.categories, a list) and the repository.        *)
(***************************************************************************)
Range(s) == { s[i] : i \in DOMAIN s }

\* Category(name=..., subcategory_name=...): a new object, no primary key yet
Category(name, sub) == [id |-> NoId, name |-> name, subcategory_name |-> sub]

\* category_exists: any(category.subcategory_name == subcategory_name ...)
category_exists(cats, sub) == \E i \in DOMAIN cats : cats[i].subcategory_name = sub

\* get_category: next((category for category in self.categories if ...), None):
\* the first category of the list with that subcategory name as <<category>>,
\* and <<>> for None
\* (a variant: the first category of the list, whatever its subcategory name)
get_category_first(cats, sub) == IF cats = <<>> THEN <<>> ELSE << cats[1] >>

get_category(cats, sub) ==
  IF \E i \in DOMAIN cats : cats[i].subcategory_name = sub
    THEN << cats[CHOOSE i \in DOMAIN cats :
                   /\ cats[i].subcategory_name = sub
                   /\ \A j \in 1..(i - 1) : cats[j].subcategory_name /= sub] >>
    ELSE <<>>

\* models.create_or_update_category (the repository's upsert_category): upsert
\* by subcategory_name. A stored category is returned as it is (never mutated);
\* an unknown one is stored under a fresh primary key, and the object passed
\* in is the stored object.
create_or_update_category(repo, c) ==
  IF \E i \in DOMAIN repo : repo[i].subcategory_name = c.subcategory_name
    THEN [repo |-> repo,
          category |-> repo[CHOOSE i \in DOMAIN repo : repo[i].subcategory_name = c.subcategory_name],
          new_category |-> c]
    ELSE LET stored == [c EXCEPT !.id = Len(repo) + 1]
         IN [repo |-> Append(repo, stored), category |-> stored, new_category |-> stored]

\* models.create_or_update_part (the repository's upsert_part): upsert by lcsc;
\* the row takes the ingested values and the new last_update
create_or_update_part(parts, p) ==
  [l \in DOMAIN parts \cup {p.lcsc} |-> IF l = p.lcsc THEN p ELSE parts[l]]

\* (a variant of the first loop that appends to the index without the upsert)
RECURSIVE ProcessCategories_no_upsert(_, _)
ProcessCategories_no_upsert(infos, st) ==
  IF infos = <<>> THEN st
  ELSE LET component == Head(infos)
           new_category == Category(component.firstCategory, component.secondCategory)
       IN ProcessCategories_no_upsert(Tail(infos),
            IF ~category_exists(st.categories, component.secondCategory)
              THEN [categories |-> Append(st.categories, new_category),
                    repo |-> st.repo,
                    new_categories |-> Append(st.new_categories, new_category)]
              ELSE st)

\* (a variant of the first loop without its two membership tests)
RECURSIVE ProcessCategories_unchecked(_, _)
ProcessCategories_unchecked(infos, st) ==
  IF infos = <<>> THEN st
  ELSE LET component == Head(infos)
           up == create_or_update_category(
                   st.repo, Category(component.firstCategory, component.secondCategory))
       IN ProcessCategories_unchecked(Tail(infos),
            [categories |-> Append(st.categories, up.category),
             repo |-> up.repo,
             new_categories |-> Append(st.new_categories, up.category)])

\* the first loop of extract_and_process_components over componentInfos
\* (scraper.py 128-136): st = [categories, repo, new_categories]
RECURSIVE ProcessCategories(_, _)
ProcessCategories(infos, st) ==
  IF infos = <<>> THEN st
  ELSE LET component == Head(infos)
           subcategory_name == component.secondCategory
           next ==
             IF ~category_exists(st.categories, subcategory_name)
               THEN LET up == create_or_update_category(
                                st.repo, Category(component.firstCategory, subcategory_name))
                    IN IF up.category \notin Range(st.categories)
                         THEN [categories |-> Append(st.categories, up.new_category),
                               repo |-> up.repo,
                               new_categories |-> Append(st.new_categories, up.new_category)]
                         ELSE [st EXCEPT !.repo = up.repo]
               ELSE st
       IN ProcessCategories(Tail(infos), next)

\* (a variant without the stock test)
SkipsPart_never(part_data) == FALSE

\* "if part_data['stock'] == 0: continue"
SkipsPart(part_data) == part_data.stock = 0

\* Part(lcsc=..., category_id=category.id, ..., stock=..., last_update=datetime.now())
Part(part_data, category, t) ==
  [lcsc |-> part_data.lcscPart, category_id |-> category.id,
   stock |-> part_data.stock, last_update |-> t]

\* the second loop of extract_and_process_components (scraper.py 139-163):
\* st = [parts, new_parts, src]; src[i] is the component record new_parts[i] was built from
RECURSIVE ProcessParts(_, _, _, _)
ProcessParts(infos, cats, t, st) ==
  IF infos = <<>> THEN st
  ELSE LET part_data == Head(infos)
           category == get_category(cats, part_data.secondCategory)
           next ==
             IF SkipsPart(part_data) THEN st
             ELSE IF category = <<>> THEN st
             ELSE LET new_part == Part(part_data, category[1], t)
                  IN [parts |-> create_or_update_part(st.parts, new_part),
                      new_parts |-> Append(st.new_parts, new_part),
                      src |-> Append(st.src, part_data)]
       IN ProcessParts(Tail(infos), cats, t, next)

\* extract_and_process_components(session, response) at time t
extract_and_process_components(infos, cats, repo, parts, t) ==
  LET c == ProcessCategories(infos, [categories |-> cats, repo |-> repo, new_categories |-> <<>>])
      p == ProcessParts(infos, c.categories, t, [parts |-> parts, new_parts |-> <<>>, src |-> <<>>])
  IN [categories |-> c.categories, repo |-> c.repo, new_categories |-> c.new_categories,
      parts |-> p.parts, new_parts |-> p.new_parts, src |-> p.src]

(***************************************************************************)
(* State.                                                                   *)
(***************************************************************************)
VARIABLES
  credentials,     \* JLCPCB_KEY and JLCPCB_SECRET are both set (scraper.py 18-19)
  catalog,         \* what the vendor API serves: the same in every run
  api_cursor,      \* how the vendor API sets lastKey: "moves", "same" or "none"
  now,             \* datetime.now(), in seconds
  pc,              \* where the main thread of the script is
  rerun,           \* the script is running for the second time
  token,           \* self.token: the serial of the token held, None before the first
  header,          \* self.session.headers["externalApiToken"]
  token_expires,   \* self.token_expires
  issue_time,      \* auth endpoint: issue_time[k] is when it issued token k
  auth_event,      \* what the handshake of the step just taken met ("none": no handshake)
  parts_fetched,   \* get_parts: parts_fetched
  last_key,        \* get_parts: last_key
  future_to_url,   \* get_parts: the futures submitted, in the order of submission
  snap,            \* as_completed: the futures found finished when the pass began
  yielded,         \* as_completed: the futures this pass has yielded so far
  categories,      \* self.categories: the Category Index
  repoCategories,  \* the repository's categories
  repoParts,       \* the repository's parts, by lcsc
  applied,         \* the last call of extract_and_process_components: what it was given and did
  applied_last,    \* the request whose response was applied last (0: none yet)
  applied_hi,      \* the latest request a response of which has been applied (0: none yet)
  first_repo,      \* the repository as the first run of the script left it
  all_parts,       \* get_parts: len(all_parts)
  applied_times,   \* how many times the response of each request has been applied
  utc_offset,      \* the host's zone: datetime.now() - datetime.utcnow(), in seconds
  old_parts,       \* main.py 47: old_parts, the parts the eviction query returned
  rows,            \* the number of rows of the parts table; row r is the r-th in query order
  total_parts,     \* main.py 78: total_parts
  chunks,          \* main.py 79: chunks
  parts_per_chunk, \* main.py 80: parts_per_chunk
  batches,         \* the calls of process_parts_chunk submitted, in the order of submission
  persisted,       \* the rows whose six quantity fields are committed
  price,           \* the price of the component record a part is built from
  unit_price       \* the price column of the part upserted from it

vars == << credentials, catalog, api_cursor, now, pc, rerun, token, header, token_expires, issue_time,
           auth_event, parts_fetched, last_key, future_to_url, snap, yielded, categories,
           repoCategories, repoParts, applied, applied_last, applied_hi, first_repo,
           all_parts, applied_times, utc_offset, old_parts, rows, total_parts, chunks, parts_per_chunk, batches,
           persisted, price, unit_price >>

\* the state of the phases after the sync loop
evictVars == << utc_offset, old_parts >>
batchVars == << rows, total_parts, chunks, parts_per_chunk, batches, persisted >>
priceVars == << price, unit_price >>
phaseVars == << evictVars, batchVars, priceVars >>
tokenVars == << token, header, token_expires, issue_time >>
loopVars == << parts_fetched, last_key, future_to_url, snap, yielded >>
repoVars == << categories, repoCategories, repoParts, applied, applied_last, applied_hi,
              all_parts, applied_times >>

\* no response applied yet
NeverApplied == [i \in 1..MaxRequests |-> 0]

NothingApplied == [infos |-> <<>>, new_parts |-> <<>>, src |-> <<>>, new_categories |-> <<>>]

\* the replies of POST /external/genToken: [status_code, data["code"]]
AuthReplies == { [status |-> SuccessCode, code |-> SuccessCode],
                 [status |-> SuccessCode, code |-> 401],
                 [status |-> 403, code |-> 403] }

(***************************************************************************)
(* _obtain_token (scraper.py 44-65) against the reply the endpoint gives:   *)
(* the values of the token fields after the call, and what it met.         *)
(***************************************************************************)
\* (a variant that stores the token and the header before it tests the payload code)
obtain_token_sets_first(reply) ==
  IF ~credentials
    THEN [event |-> "nocreds", token |-> token, header |-> header,
          token_expires |-> token_expires, issue_time |-> issue_time]
  ELSE IF reply.status /= SuccessCode
    THEN [event |-> "status", token |-> token, header |-> header,
          token_expires |-> token_expires, issue_time |-> issue_time]
  ELSE IF reply.code /= SuccessCode
    THEN [event |-> "code", token |-> Len(issue_time) + 1, header |-> Len(issue_time) + 1,
          token_expires |-> token_expires, issue_time |-> issue_time]
  ELSE [event |-> "ok", token |-> Len(issue_time) + 1, header |-> Len(issue_time) + 1,
        token_expires |-> now + TokenLifetime, issue_time |-> Append(issue_time, now)]

obtain_token(reply) ==
  IF ~credentials
    THEN [event |-> "nocreds", token |-> token, header |-> header,
          token_expires |-> token_expires, issue_time |-> issue_time]
  ELSE IF reply.status /= SuccessCode
    THEN [event |-> "status", token |-> token, header |-> header,
          token_expires |-> token_expires, issue_time |-> issue_time]
  ELSE IF reply.code /= SuccessCode
    THEN [event |-> "code", token |-> token, header |-> header,
          token_expires |-> token_expires, issue_time |-> issue_time]
  ELSE [event |-> "ok", token |-> Len(issue_time) + 1, header |-> Len(issue_time) + 1,
        token_expires |-> now + TokenLifetime, issue_time |-> Append(issue_time, now)]

AuthFailures == {"nocreds", "status", "code"}

\* "if self.token_expires < datetime.now()"
TokenExpired == token_expires < now

\* "data = {"lastKey": last_key} if last_key else None": the cursor by its truthiness
RequestData(key) == IF key /= None THEN key ELSE None

Pending(data) == [data |-> data, done |-> FALSE, resp |-> <<>>, token |-> None,
                  sent_at |-> 0, issued |-> 0]

\* the repositories a first run may find: an empty one, and one that holds a
\* category and a part of it
SeedRepositories ==
  { [categories |-> <<>>, parts |-> <<>>],
    [categories |-> << [id |-> 1, name |-> "Passive", subcategory_name |-> "Cap"] >>,
     parts |-> [l \in {"C2"} |->
                  [lcsc |-> "C2", category_id |-> 1, stock |-> 9, last_update |-> 0]]] }

\* no component record's price is at hand, no price column written
NoPrice == [kind |-> "unset"]

\* the phases after the sync loop have not begun
PhasesNotBegun ==
  /\ utc_offset = 0
  /\ old_parts = {}
  /\ rows = 0
  /\ total_parts = 0 /\ chunks = 0 /\ parts_per_chunk = 0
  /\ batches = <<>>
  /\ persisted = {}
  /\ price = NoPrice /\ unit_price = NoPrice

(***************************************************************************)
(* Initial state: the script starts (main.py 22-30: the index is seeded    *)
(* with the categories of the repository).                                  *)
(***************************************************************************)
Init ==
  /\ credentials \in BOOLEAN
  /\ catalog \in Catalogs
  /\ api_cursor = "moves"
  /\ now = 0
  /\ pc = "init"
  /\ rerun = FALSE
  /\ token = None /\ header = None /\ token_expires = None /\ issue_time = <<>>
  /\ auth_event = "none"
  /\ parts_fetched = TRUE /\ last_key = None /\ future_to_url = <<>>
  /\ snap = {} /\ yielded = {}
  /\ \E seed \in SeedRepositories :
       /\ repoCategories = seed.categories
       /\ repoParts = seed.parts
       /\ categories = seed.categories
  /\ applied = NothingApplied /\ applied_last = 0 /\ applied_hi = 0
  /\ all_parts = 0 /\ applied_times = NeverApplied
  /\ first_repo = <<>>
  /\ PhasesNotBegun

(***************************************************************************)
(* Actions.                                                                 *)
(***************************************************************************)
\* time passes while the main thread waits for the request it submitted and
\* the pool has not sent it yet (the expiry check, the stamps of last_update
\* and the send of the next request all see it)
Tick ==
  /\ now < MaxTicks * TickSeconds
  /\ pc = "wait"
  /\ \E i \in DOMAIN future_to_url : ~future_to_url[i].done
  /\ now' = now + TickSeconds
  /\ auth_event' = "none"
  /\ UNCHANGED << phaseVars, credentials, catalog, api_cursor, pc, rerun, tokenVars, loopVars, repoVars, first_repo >>

\* JlcpcbScraper.__init__ (scraper.py 23-42): the first handshake
Construct ==
  /\ pc = "init"
  /\ \E reply \in AuthReplies :
       LET r == obtain_token(reply)
       IN /\ token' = r.token /\ header' = r.header
          /\ token_expires' = r.token_expires /\ issue_time' = r.issue_time
          /\ auth_event' = r.event
          /\ pc' = IF r.event \in AuthFailures THEN "autherror" ELSE "loop"
  /\ UNCHANGED << phaseVars, credentials, catalog, api_cursor, now, rerun, loopVars, repoVars, first_repo >>

\* get_parts, scraper.py 98-105: the loop head, the expiry check with the
\* handshake it may make, and the submission of the page request
SubmitPage ==
  /\ pc = "loop"
  /\ Len(future_to_url) < MaxRequests
  /\ \E reply \in AuthReplies :
       LET r == IF TokenExpired THEN obtain_token(reply)
                ELSE [event |-> "none", token |-> token, header |-> header,
                      token_expires |-> token_expires, issue_time |-> issue_time]
       IN /\ token' = r.token /\ header' = r.header
          /\ token_expires' = r.token_expires /\ issue_time' = r.issue_time
          /\ auth_event' = r.event
          /\ IF r.event \in AuthFailures
               THEN /\ pc' = "autherror"
                    /\ future_to_url' = future_to_url
               ELSE /\ pc' = "wait"
                    /\ future_to_url' = Append(future_to_url, Pending(RequestData(last_key)))
  /\ UNCHANGED << phaseVars, credentials, catalog, api_cursor, now, rerun, parts_fetched, last_key, snap, yielded,
                  repoVars, first_repo >>

\* a pool thread runs self.session.post(url, data=data): the request goes out
\* with the session's headers of that moment, and the future completes
WorkerRun(i) ==
  /\ i \in DOMAIN future_to_url
  /\ ~future_to_url[i].done
  /\ future_to_url' = [future_to_url EXCEPT ![i] =
       [data |-> @.data, done |-> TRUE, resp |-> << ApiReply(api_cursor, catalog, @.data) >>,
        token |-> header, sent_at |-> now, issued |-> Len(issue_time)]]
  /\ auth_event' = "none"
  /\ UNCHANGED << phaseVars, credentials, catalog, api_cursor, now, pc, rerun, tokenVars, parts_fetched, last_key,
                  snap, yielded, repoVars, first_repo >>

\* concurrent.futures.as_completed(future_to_url) begins (scraper.py 107): the
\* futures already finished are yielded first, in the order of a set
AsCompleted ==
  /\ pc = "wait"
  /\ pc' = "pass"
  /\ snap' = { i \in DOMAIN future_to_url : future_to_url[i].done }
  /\ yielded' = {}
  /\ auth_event' = "none"
  /\ UNCHANGED << phaseVars, credentials, catalog, api_cursor, now, rerun, tokenVars, parts_fetched, last_key,
                  future_to_url, repoVars, first_repo >>

\* "response.get("code") == 200 and response.get('data', {}).get('componentInfos', [])"
PageHasComponents(response) == response.code = SuccessCode /\ response.infos /= <<>>

\* bool(parts)
Truthy(parts) == parts /= <<>>

\* the pc after the body of the for loop ran for the future yielded
AfterBody(done_all, fetched) ==
  IF ~done_all THEN "pass"
  ELSE IF ~fetched THEN "returned"
  ELSE "loop"

\* one turn of the for loop (scraper.py 107-118) for future i, and, after the
\* last future of the pass, "if not parts_fetched: break" (120-121) and the
\* loop test (98)
ProcessFuture(i) ==
  /\ pc = "pass"
  /\ i \in DOMAIN future_to_url
  /\ i \notin yielded
  /\ future_to_url[i].done
  /\ i \in snap \/ snap \subseteq yielded
  /\ LET response == future_to_url[i].resp[1]
         done_all == yielded \cup {i} = DOMAIN future_to_url
     IN IF response.kind /= "json"
          THEN \* future.result() re-raises, or .json() raises
               /\ pc' = "fetcherror"
               /\ UNCHANGED << parts_fetched, last_key, repoVars >>
          ELSE IF PageHasComponents(response)
            THEN LET e == extract_and_process_components(
                            response.infos, categories, repoCategories, repoParts, now)
                 IN /\ categories' = e.categories
                    /\ repoCategories' = e.repo
                    /\ repoParts' = e.parts
                    /\ applied' = [infos |-> response.infos, new_parts |-> e.new_parts,
                                   src |-> e.src, new_categories |-> e.new_categories]
                    /\ applied_last' = i
                    /\ applied_hi' = IF i > applied_hi THEN i ELSE applied_hi
                    /\ all_parts' = all_parts + Len(e.new_parts)
                    /\ applied_times' = [applied_times EXCEPT ![i] = @ + 1]
                    /\ last_key' = response.lastKey
                    /\ parts_fetched' = Truthy(e.new_parts)
                    /\ pc' = AfterBody(done_all, Truthy(e.new_parts))
            ELSE /\ parts_fetched' = FALSE
                 /\ pc' = AfterBody(done_all, FALSE)
                 /\ UNCHANGED << last_key, repoVars >>
  /\ yielded' = yielded \cup {i}
  /\ auth_event' = "none"
  /\ UNCHANGED << phaseVars, credentials, catalog, api_cursor, now, rerun, tokenVars, future_to_url, snap, first_repo >>

\* main.py 35: get_parts has returned None, and the for statement iterates it:
\* TypeError, 'NoneType' object is not iterable
MainIterate ==
  /\ pc = "returned"
  /\ pc' = "typeerror"
  /\ auth_event' = "none"
  /\ UNCHANGED << phaseVars, credentials, catalog, api_cursor, now, rerun, tokenVars, loopVars, repoVars, first_repo >>

\* the last_update column aside
Ingested(parts) == [l \in DOMAIN parts |-> [lcsc |-> parts[l].lcsc,
                                            category_id |-> parts[l].category_id,
                                            stock |-> parts[l].stock]]

\* the script is run again against the same API (main.py 22-30): a new
\* session, the index seeded with the repository's categories, a new scraper
Rerun ==
  /\ pc = "typeerror"
  /\ ~rerun
  /\ rerun' = TRUE
  /\ first_repo' = << repoCategories, Ingested(repoParts) >>
  /\ pc' = "init"
  /\ token' = None /\ header' = None /\ token_expires' = None
  /\ auth_event' = "none"
  /\ parts_fetched' = TRUE /\ last_key' = None /\ future_to_url' = <<>>
  /\ snap' = {} /\ yielded' = {}
  /\ categories' = repoCategories
  /\ applied' = NothingApplied /\ applied_last' = 0 /\ applied_hi' = 0
  /\ all_parts' = 0 /\ applied_times' = NeverApplied
  /\ UNCHANGED << phaseVars, credentials, catalog, api_cursor, now, issue_time, repoCategories, repoParts >>

Next ==
  \/ Tick
  \/ Construct
  \/ SubmitPage
  \/ \E i \in 1..MaxRequests : WorkerRun(i)
  \/ AsCompleted
  \/ \E i \in 1..MaxRequests : ProcessFuture(i)
  \/ MainIterate

\* one run of the script
Spec == Init /\ [][Next]_vars

\* the script run, and run once more
NextRerun ==
  \/ Next
  \/ Rerun

SpecRerun == Init /\ [][NextRerun]_vars

\* one run of the script against an API whose cursor never moves
InitStuck ==
  /\ credentials = TRUE
  /\ catalog \in [1..1 -> PagePool]
  /\ api_cursor \in {"same", "none"}
  /\ now = 0
  /\ pc = "init"
  /\ rerun = FALSE
  /\ token = None /\ header = None /\ token_expires = None /\ issue_time = <<>>
  /\ auth_event = "none"
  /\ parts_fetched = TRUE /\ last_key = None /\ future_to_url = <<>>
  /\ snap = {} /\ yielded = {}
  /\ \E seed \in SeedRepositories :
       /\ repoCategories = seed.categories
       /\ repoParts = seed.parts
       /\ categories = seed.categories
  /\ applied = NothingApplied /\ applied_last = 0 /\ applied_hi = 0
  /\ all_parts = 0 /\ applied_times = NeverApplied
  /\ first_repo = <<>>
  /\ PhasesNotBegun

SpecStuck == InitStuck /\ [][Next]_vars

(***************************************************************************)
(* The phases after the sync loop (main.py 45-94). They read the           *)
(* repository only; the state of the sync loop is set aside.                *)
(***************************************************************************)
SyncSetAside ==
  /\ credentials = TRUE
  /\ catalog = <<>>
  /\ api_cursor = "moves"
  /\ rerun = FALSE
  /\ token = None /\ header = None /\ token_expires = None /\ issue_time = <<>>
  /\ auth_event = "none"
  /\ parts_fetched = FALSE /\ last_key = None /\ future_to_url = <<>>
  /\ snap = {} /\ yielded = {}
  /\ applied = NothingApplied /\ applied_last = 0 /\ applied_hi = 0
  /\ all_parts = 0 /\ applied_times = NeverApplied
  /\ first_repo = <<>>

syncVars == << credentials, catalog, api_cursor, rerun, tokenVars, auth_event, loopVars, applied,
               applied_last, applied_hi, first_repo, all_parts, applied_times >>

(***************************************************************************)
(* The eviction sweep (main.py 45-51).                                      *)
(***************************************************************************)
\* timedelta(days=30)
RetentionDays == 30

Hour == 60 * 60
Day == 24 * Hour

\* the zones of the hosts the script runs on: last_update is stamped with
\* datetime.now(), the host's local time (scraper.py 160), and the sweep
\* reads datetime.utcnow() (main.py 47)
UtcOffsets == { 0 - 8 * Hour, 0, 2 * Hour }

\* datetime.utcnow(), on the clock whose datetime.now() is t
utcnow(t, offset) == t - offset

\* session.query(Part).filter(Part.last_update < cutoff).all()
StaleParts(parts, cutoff) ==
  { parts[l] : l \in { x \in DOMAIN parts : parts[x].last_update < cutoff } }

\* "for part in old_parts: session.delete(part)", and the commit
DeleteParts(parts, old) == [l \in { x \in DOMAIN parts : parts[x] \notin old } |-> parts[l]]

\* how long before the sweep a part was last seen in a page, in seconds
SeenAges == { 0, Hour, 29 * Day, 30 * Day - Hour, 30 * Day, 30 * Day + Hour, 31 * Day }

\* the host's datetime.now() when the sweep runs
SweepTime == 40 * Day

\* the repositories the sweep may find: each part as the sync loop that saw
\* it last stamped it
StampedRepositories ==
  LET category == [id |-> 1, name |-> "Passive", subcategory_name |-> "Res"]
  IN UNION { [ls -> { Part(Rec(l, 5, "Passive", "Res"), category, SweepTime - age)
                        : l \in {"C1", "C2"}, age \in SeenAges }]
             : ls \in SUBSET {"C1", "C2"} }

InitEvict ==
  /\ SyncSetAside
  /\ pc = "evict"
  /\ now = SweepTime
  /\ utc_offset \in UtcOffsets
  /\ old_parts = {}
  /\ rows = 0
  /\ total_parts = 0 /\ chunks = 0 /\ parts_per_chunk = 0
  /\ batches = <<>>
  /\ persisted = {}
  /\ price = NoPrice /\ unit_price = NoPrice
  /\ repoCategories = << [id |-> 1, name |-> "Passive", subcategory_name |-> "Res"] >>
  /\ categories = repoCategories
  /\ repoParts \in { r \in StampedRepositories : \A l \in DOMAIN r : r[l].lcsc = l }

\* main.py 47-50: the query, the deletes and the commit
Evict ==
  /\ pc = "evict"
  /\ old_parts' = StaleParts(repoParts, utcnow(now, utc_offset) - RetentionDays * Day)
  /\ repoParts' = DeleteParts(repoParts, old_parts')
  /\ pc' = "evicted"
  /\ UNCHANGED << syncVars, batchVars, priceVars, now, utc_offset, categories, repoCategories >>

NextEvict ==
  \/ Evict

SpecEvict == InitEvict /\ [][NextEvict]_vars

(***************************************************************************)
(* The normalization pass (main.py 55-94): the partition into batches.     *)
(***************************************************************************)
\* math.ceil(total_parts / 100): the 100
ChunkTarget == 100

\* math.ceil(a / b) for a >= 0 and b > 0
ceil_div(a, b) == IF a % b = 0 THEN a \div b ELSE a \div b + 1

\* session.query(Part).offset(offset).limit(limit).all(): the rows returned
QueryRows(offset, limit) == { r \in 0..(rows - 1) : offset <= r /\ r < offset + limit }

\* a call of process_parts_chunk(parts_chunk) handed to the pool
Submitted(parts_chunk) == [parts_chunk |-> parts_chunk, status |-> "submitted"]

InitNormalize ==
  /\ SyncSetAside
  /\ pc = "normalize"
  /\ now = 0
  /\ utc_offset = 0 /\ old_parts = {}
  /\ repoCategories = <<>> /\ categories = <<>> /\ repoParts = <<>>
  /\ rows \in 0..MaxParts
  /\ total_parts = 0 /\ chunks = 0 /\ parts_per_chunk = 0
  /\ batches = <<>>
  /\ persisted = {}
  /\ price = NoPrice /\ unit_price = NoPrice

\* main.py 78-80: the count and the two divisions; the second raises
\* ZeroDivisionError when chunks is 0
Partition ==
  /\ pc = "normalize"
  /\ total_parts' = rows
  /\ chunks' = ceil_div(rows, ChunkTarget)
  /\ IF chunks' = 0
       THEN /\ pc' = "zerodivision"
            /\ parts_per_chunk' = parts_per_chunk
       ELSE /\ pc' = "submit"
            /\ parts_per_chunk' = ceil_div(rows, chunks')
  /\ UNCHANGED << syncVars, evictVars, priceVars, now, categories, repoCategories, repoParts, rows,
                  batches, persisted >>

\* main.py 83-90: one turn of "for i in range(chunks)"
SubmitChunk ==
  /\ pc = "submit"
  /\ Len(batches) < chunks
  /\ LET i == Len(batches)
         offset == i * parts_per_chunk
     IN batches' = Append(batches, Submitted(QueryRows(offset, parts_per_chunk)))
  /\ UNCHANGED << syncVars, evictVars, priceVars, now, pc, categories, repoCategories, repoParts, rows,
                  total_parts, chunks, parts_per_chunk, persisted >>

\* what can go wrong in a call of process_parts_chunk: nothing ("ok"), the
\* merge or a parser raises at row r ("part", r), or the commit raises ("commit")
ChunkOutcomes(parts_chunk) ==
  { [at |-> "ok", row |-> 0], [at |-> "commit", row |-> 0] }
  \cup { [at |-> "part", row |-> r] : r \in parts_chunk }

\* (a variant that commits inside the loop, after each part)
process_parts_chunk_commit_each(parts_chunk, outcome) ==
  IF outcome.at = "ok" THEN [status |-> "committed", rows |-> parts_chunk]
  ELSE IF outcome.at = "commit"
    THEN [status |-> "failed", rows |-> { r \in parts_chunk : \E s \in parts_chunk : s > r }]
  ELSE [status |-> "failed", rows |-> { r \in parts_chunk : r < outcome.row }]

\* process_parts_chunk(parts_chunk) (main.py 57-75): a session of its own, the
\* loop over the parts (merge, the six parsers, add), one commit after the
\* loop; an exception is printed, and the session is closed in any case, which
\* drops what it had not committed. The result: how the call ended and the
\* rows whose quantity fields it committed.
process_parts_chunk(parts_chunk, outcome) ==
  IF outcome.at = "ok" THEN [status |-> "committed", rows |-> parts_chunk]
  ELSE [status |-> "failed", rows |-> {}]

\* (a variant in which the exception of a call leaves the call and the pool
\* drops the calls that have not run)
AfterChunk_escapes(bs, b, status) ==
  [x \in DOMAIN bs |->
     IF x = b THEN [bs[x] EXCEPT !.status = status]
     ELSE IF status = "failed" /\ bs[x].status = "submitted"
       THEN [bs[x] EXCEPT !.status = "dropped"]
     ELSE bs[x]]

\* the calls of the pool after call b ended: "except Exception" is inside the
\* call (main.py 72-73), so the end of a call touches no other call
AfterChunk(bs, b, status) == [bs EXCEPT ![b].status = status]

\* a pool thread runs call b of process_parts_chunk
ProcessChunk(b) ==
  /\ b \in DOMAIN batches
  /\ batches[b].status = "submitted"
  /\ \E outcome \in ChunkOutcomes(batches[b].parts_chunk) :
       LET r == process_parts_chunk(batches[b].parts_chunk, outcome)
       IN /\ batches' = AfterChunk(batches, b, r.status)
          /\ persisted' = persisted \cup r.rows
  /\ UNCHANGED << syncVars, evictVars, priceVars, now, pc, categories, repoCategories, repoParts, rows,
                  total_parts, chunks, parts_per_chunk >>

\* the end of the with block (main.py 82, 92-94): the pool is shut down, which
\* waits for the calls submitted; then the print and session.close()
Join ==
  /\ pc = "submit"
  /\ Len(batches) = chunks
  /\ \A b \in DOMAIN batches : batches[b].status /= "submitted"
  /\ pc' = "closed"
  /\ UNCHANGED << syncVars, evictVars, batchVars, priceVars, now, categories, repoCategories, repoParts >>

\* most batches of a table of MaxParts rows
MaxBatches == ceil_div(MaxParts, ChunkTarget)

NextNormalize ==
  \/ Partition
  \/ SubmitChunk
  \/ \E b \in 1..MaxBatches : ProcessChunk(b)
  \/ Join

SpecNormalize == InitNormalize /\ [][NextNormalize]_vars

\* the pool runs every call submitted to it, and the main thread goes on
SpecNormalizeFair ==
  /\ SpecNormalize
  /\ WF_vars(Partition) /\ WF_vars(SubmitChunk) /\ WF_vars(Join)
  /\ \A b \in 1..MaxBatches : WF_vars(ProcessChunk(b))

(***************************************************************************)
(* get_part_price (scraper.py 173-186) and the part built with its result  *)
(* (scraper.py 147-163). A string is the sequence of its characters.       *)
(***************************************************************************)
Digits == {"1", "2"}
PriceChars == Digits \cup {":", ",", "x"}

\* the value of part_data['price']: the key absent, null, or a string
PriceInputs ==
  { [kind |-> "absent", text |-> <<>>], [kind |-> "null", text |-> <<>>] }
  \cup { [kind |-> "str", text |-> t] : t \in UNION { [1..n -> PriceChars] : n \in 0..MaxPriceLen } }

\* the index of the first ch of s, Len(s) + 1 when there is none
FirstIndex(s, ch) ==
  IF \E i \in DOMAIN s : s[i] = ch
    THEN CHOOSE i \in DOMAIN s : s[i] = ch /\ \A j \in 1..(i - 1) : s[j] /= ch
    ELSE Len(s) + 1

\* s.split(ch)[0]
Before(s, ch) == SubSeq(s, 1, FirstIndex(s, ch) - 1)
\* what follows the first ch of s
After(s, ch) == SubSeq(s, FirstIndex(s, ch) + 1, Len(s))

IsNumber(s) == s /= <<>> /\ \A i \in DOMAIN s : s[i] \in Digits

DigitValue(d) == IF d = "1" THEN 1 ELSE 2

\* float(s) of a string of digits
RECURSIVE float(_)
float(s) ==
  IF s = <<>> THEN 0
  ELSE 10 * float(SubSeq(s, 1, Len(s) - 1)) + DigitValue(s[Len(s)])

NoneResult == [kind |-> "none", value |-> 0]

\* the body of the try block (scraper.py 179-183): None, a float, or the
\* exception raised (IndexError of price[1], ValueError of float)
PriceBody(p) ==
  IF p.kind = "null" \/ p.text = <<>> THEN NoneResult
  ELSE LET first == Before(p.text, ",")
       IN IF FirstIndex(first, ":") > Len(first)
            THEN [kind |-> "raise", value |-> 0]
          ELSE LET field == Before(After(first, ":"), ":")
               IN IF IsNumber(field) THEN [kind |-> "float", value |-> float(field)]
                  ELSE [kind |-> "raise", value |-> 0]

\* get_part_price(price): "except Exception" turns a raise into None
get_part_price(p) == IF PriceBody(p).kind = "raise" THEN NoneResult ELSE PriceBody(p)

InitPrice ==
  /\ SyncSetAside
  /\ pc = "part"
  /\ now = 0
  /\ utc_offset = 0 /\ old_parts = {}
  /\ repoCategories = <<>> /\ categories = <<>> /\ repoParts = <<>>
  /\ rows = 0
  /\ total_parts = 0 /\ chunks = 0 /\ parts_per_chunk = 0
  /\ batches = <<>>
  /\ persisted = {}
  /\ price \in PriceInputs
  /\ unit_price = NoPrice

\* scraper.py 147-163 for one component record: part_data['price'] (KeyError
\* when the key is absent), get_part_price, Part(..., price=part_price) and
\* create_or_update_part
BuildPart ==
  /\ pc = "part"
  /\ IF price.kind = "absent"
       THEN /\ pc' = "keyerror"
            /\ unit_price' = unit_price
       ELSE /\ pc' = "upserted"
            /\ unit_price' = get_part_price(price)
  /\ UNCHANGED << syncVars, evictVars, batchVars, price, now, categories, repoCategories,
                  repoParts >>

NextPrice ==
  \/ BuildPart

SpecPrice == InitPrice /\ [][NextPrice]_vars

(***************************************************************************)
(* Properties.                                                              *)
(***************************************************************************)
Response(i) == future_to_url[i].resp[1]

\* no component record of the page is accepted as a part
ZeroAccepted(infos) == \A k \in DOMAIN infos : infos[k].stock = 0

\* a response that ends pagination
StopsLoop(response) ==
  /\ response.kind = "json"
  /\ \/ response.code /= SuccessCode
     \/ response.infos = <<>>
     \/ ZeroAccepted(response.infos)

\* C1: a page request is submitted only after every earlier one has completed,
\* so each request but the last was the most recently issued one when its
\* response came; once such a response has code /= 200, no componentInfos or
\* no accepted part, no further page request is issued after it.
C1_NoRequestAfterStoppingResponse ==
  \A i \in DOMAIN future_to_url :
    i < Len(future_to_url) => ~StopsLoop(Response(i))

\* C2: page responses are applied in cursor order: the response applied last
\* is never that of a request earlier than one whose response was applied
\* before.
C2_AppliedInCursorOrder == applied_last = applied_hi

\* C3: every page request sent carries the most recently issued token, and
\* that token is within its validity window when the request is sent.
C3_NoRequestWithExpiredToken ==
  \A i \in DOMAIN future_to_url :
    future_to_url[i].done =>
      /\ future_to_url[i].token = future_to_url[i].issued
      /\ future_to_url[i].token /= None
      /\ future_to_url[i].sent_at <= issue_time[future_to_url[i].token] + TokenLifetime

\* C4: after the sync loop has returned normally, the next phase of the run is
\* the eviction sweep (and no unhandled error ends the run).
C4_SyncThenEviction == [][pc = "returned" => pc' \in {"returned", "evict"}]_vars

\* C5: a page fetch failure (the request raised, or the response carries no
\* usable payload) ends pagination without raising: get_parts never ends with
\* the error of a page fetch.
C5_FetchFailureNotFatal ==
  \A i \in yielded :
    Response(i).kind \in {"neterr", "nojson"} => pc \in {"returned", "typeerror"}

\* C6: a failed handshake (credentials absent, status /= 200 or code /= 200),
\* at construction or at a refresh inside get_parts, raises, submits no page
\* request, leaves token, header and expiry as they were, and is followed by
\* no other handshake or page request.
C6_AuthFailureFatal ==
  [][ /\ auth_event' \in AuthFailures =>
           /\ pc' = "autherror"
           /\ token' = token /\ header' = header /\ token_expires' = token_expires
           /\ future_to_url' = future_to_url
      /\ pc = "autherror" =>
           /\ pc' = "autherror"
           /\ auth_event' = "none"
           /\ future_to_url' = future_to_url ]_vars

\* a handshake failed at a refresh inside get_parts, with a token held
C6_Witness ==
  /\ pc = "autherror"
  /\ auth_event \in {"status", "code"}
  /\ future_to_url /= <<>>
  /\ token /= None

\* the step applies the response of request i
Applies(i) ==
  /\ pc = "pass"
  /\ i \in DOMAIN future_to_url
  /\ i \notin yielded
  /\ yielded' = yielded \cup {i}
  /\ Response(i).kind = "json"
  /\ PageHasComponents(Response(i))

\* the rows of the repository for code l (none: the empty set)
Row(parts, l) == IF l \in DOMAIN parts THEN {parts[l]} ELSE {}

\* C7: when a page is applied, create_or_update_part is called for no record
\* with stock = 0, and a part code that only such records of the page carry
\* keeps its row (its last_update too) or stays absent.
C7_ZeroStockNotUpserted ==
  [][ \A i \in 1..MaxRequests :
        Applies(i) =>
          LET infos == Response(i).infos
          IN /\ applied'.infos = infos
             /\ \A k \in DOMAIN applied'.src : applied'.src[k].stock /= 0
             /\ \A k \in DOMAIN infos :
                  (\A j \in DOMAIN infos :
                     infos[j].lcscPart = infos[k].lcscPart => infos[j].stock = 0)
                  => Row(repoParts', infos[k].lcscPart) = Row(repoParts, infos[k].lcscPart) ]_vars

\* a page with a stock = 0 record for an existing part was applied, later
\* than the part was last upserted
C7_Witness ==
  \E k \in DOMAIN applied.infos :
    /\ applied.infos[k].stock = 0
    /\ applied.infos[k].lcscPart \in DOMAIN repoParts
    /\ repoParts[applied.infos[k].lcscPart].last_update < now
    /\ repoParts[applied.infos[k].lcscPart].stock /= 0

UniqueSubcategories(cats) ==
  \A i, j \in DOMAIN cats : cats[i].subcategory_name = cats[j].subcategory_name => i = j

\* C9: the Category Index and the repository hold at most one category per
\* subcategory_name.
C9_OneCategoryPerSubcategory ==
  /\ UniqueSubcategories(categories)
  /\ UniqueSubcategories(repoCategories)

\* two pages were applied, the last one repeating a subcategory within itself
\* that the index already held
C9_Witness ==
  /\ applied_hi >= 2
  /\ \E j, k \in DOMAIN applied.infos :
       /\ j /= k
       /\ applied.infos[j].secondCategory = applied.infos[k].secondCategory
  /\ Len(categories) >= 2
  /\ applied.new_categories = <<>>

\* C10: a second sync against the same API responses leaves the repository
\* (categories, and parts by lcsc with their ingested values) as the first
\* sync left it.
C10_SyncIdempotent ==
  (rerun /\ pc = "returned") => << repoCategories, Ingested(repoParts) >> = first_repo

\* C11: the eviction sweep deletes exactly the parts last seen in a page
\* more than 30 days before the sweep, and keeps every other part.
C11_EvictsExactlyStale ==
  pc = "evicted" =>
    /\ \A p \in old_parts : p.last_update < now - RetentionDays * Day
    /\ \A l \in DOMAIN repoParts : ~(repoParts[l].last_update < now - RetentionDays * Day)

\* C12: for every size of the parts table, 0 included, the partition
\* completes without error, and the batches submitted cover every row, share
\* no row, and none of them is empty.
C12_PartitionCovers ==
  /\ pc /= "zerodivision"
  /\ (pc = "submit" /\ Len(batches) = chunks) =>
       /\ UNION { batches[b].parts_chunk : b \in DOMAIN batches } = 0..(rows - 1)
       /\ \A a, b \in DOMAIN batches :
            a /= b => batches[a].parts_chunk \cap batches[b].parts_chunk = {}
       /\ \A b \in DOMAIN batches : batches[b].parts_chunk /= {}

\* the step ends call b with an exception
Fails(b) ==
  /\ b \in DOMAIN batches
  /\ batches[b].status = "submitted"
  /\ batches'[b].status = "failed"

Finished(b) == batches[b].status \in {"committed", "failed"}

\* C13: a failure inside one batch is caught in that batch: the step leaves
\* every other batch, the rows committed and the main thread as they were,
\* and from then on every batch submitted is still run, the rows of those
\* that do not fail are committed, and the pass ends without raising.
C13_BatchFailureIsolated ==
  /\ [][ \A b \in DOMAIN batches :
           Fails(b) =>
             /\ \A x \in DOMAIN batches : x /= b => batches'[x] = batches[x]
             /\ persisted' = persisted
             /\ pc' = pc ]_vars
  /\ (\E b \in DOMAIN batches : batches[b].status = "failed")
       ~> /\ pc = "closed"
          /\ Len(batches) = chunks
          /\ \A b \in DOMAIN batches :
               /\ Finished(b)
               /\ batches[b].status = "committed" => batches[b].parts_chunk \subseteq persisted

\* the pass ended; its first batch failed and a later one committed its rows
C13_Witness ==
  /\ pc = "closed"
  /\ Len(batches) >= 2
  /\ batches[1].status = "failed"
  /\ \E b \in DOMAIN batches :
       batches[b].status = "committed" /\ batches[b].parts_chunk \subseteq persisted

\* a tier: digits, a colon, digits
IsTier(s) ==
  /\ IsNumber(Before(s, ":"))
  /\ IsNumber(After(s, ":"))

\* a well-formed tier string: tiers separated by commas
RECURSIVE WellFormed(_)
WellFormed(s) ==
  /\ IsTier(Before(s, ","))
  /\ FirstIndex(s, ",") <= Len(s) => WellFormed(After(s, ","))

\* C14: a part is upserted whatever its price string is: with the price of
\* the first tuple when the string is well-formed, and with no price (None)
\* when it is null, empty or malformed.
C14_BadPriceIsNone ==
  (pc = "upserted" /\ price.kind \in {"null", "str"}) =>
    IF price.kind = "str" /\ WellFormed(price.text)
      THEN unit_price = [kind |-> "float", value |-> float(After(Before(price.text, ","), ":"))]
      ELSE unit_price = NoneResult

\* C15: the first page request carries no body, and every later one carries
\* as lastKey the cursor returned in the response to the request just before
\* it, never the cursor of an older page.
C15_CursorOfPrecedingPage ==
  \A i \in DOMAIN future_to_url :
    IF i = 1 THEN future_to_url[i].data = None
    ELSE future_to_url[i].data = RequestData(Response(i - 1).lastKey)

\* C16: the loop goes on to another request only when the last page changed
\* the cursor and yielded an accepted part: no request follows a response
\* whose lastKey is the cursor its request carried (or is absent), so the loop
\* ends against an API whose cursor never moves.
C16_NoRequestAfterStuckCursor ==
  \A i \in DOMAIN future_to_url :
    i < Len(future_to_url) =>
      /\ Response(i).lastKey /= None
      /\ Response(i).lastKey /= future_to_url[i].data
      /\ ~ZeroAccepted(Response(i).infos)

HasSubcategory(cats, sub) == \E c \in Range(cats) : c.subcategory_name = sub

\* C17: during a run the Category Index only grows at its end (no entry is
\* removed or changed); the entries a step appends are the categories that
\* step's page application created, each upserted into the repository in
\* that step; and every subcategory of the index is in the repository.
C17_IndexAppendOnly ==
  /\ [](\A c \in Range(categories) : HasSubcategory(repoCategories, c.subcategory_name))
  /\ [][ /\ Len(categories') >= Len(categories)
         /\ SubSeq(categories', 1, Len(categories)) = categories
         /\ Len(categories') > Len(categories) =>
              /\ \E i \in 1..MaxRequests : Applies(i)
              /\ SubSeq(categories', Len(categories) + 1, Len(categories')) = applied'.new_categories
              /\ \A c \in Range(applied'.new_categories) :
                   /\ HasSubcategory(repoCategories', c.subcategory_name)
                   /\ ~HasSubcategory(categories, c.subcategory_name) ]_vars

\* a page application appended a category to an index that held one already
C17_Witness ==
  /\ applied.new_categories /= <<>>
  /\ Len(categories) > Len(applied.new_categories)
  /\ categories[Len(categories)] = applied.new_categories[Len(applied.new_categories)]

\* the page requests in flight: submitted, and not yet completed by the pool
InFlight == { i \in DOMAIN future_to_url : ~future_to_url[i].done }

\* C18: at most one page request is in flight at any time, and while one is,
\* the main thread changes neither the token header, nor the cursor, nor the
\* Category Index, nor the repository.
C18_QuietWhileInFlight ==
  /\ [](Cardinality(InFlight) <= 1)
  /\ [][ InFlight /= {} =>
           UNCHANGED << header, last_key, categories, repoCategories, repoParts >> ]_vars

\* the parts a page application accepts from the records infos
RECURSIVE Accepted(_)
Accepted(infos) ==
  IF infos = <<>> THEN 0
  ELSE (IF infos[1].stock = 0 THEN 0 ELSE 1) + Accepted(Tail(infos))

\* the parts accepted from the pages of the requests 1..n whose response was applied
RECURSIVE AcceptedUpTo(_)
AcceptedUpTo(n) ==
  IF n = 0 THEN 0
  ELSE AcceptedUpTo(n - 1)
       + (IF applied_times[n] > 0 THEN Accepted(Response(n).infos) ELSE 0)

\* C19: the response of each page request is applied at most once in a run
\* (and once when it is a successful page), so all_parts holds each page's
\* accepted parts once, and no page's parts are upserted again in a later pass.
C19_EachResponseAppliedOnce ==
  /\ \A i \in 1..MaxRequests : applied_times[i] <= 1
  /\ all_parts = AcceptedUpTo(Len(future_to_url))

\* C20: a normalization batch is all-or-nothing: when a step of the batch
\* failed, the quantity fields of none of its parts are committed, and when
\* none failed, those of all its parts are.
C20_BatchAllOrNothing ==
  \A b \in DOMAIN batches :
    /\ batches[b].status = "failed" => batches[b].parts_chunk \cap persisted = {}
    /\ batches[b].status = "committed" => batches[b].parts_chunk \subseteq persisted
    /\ batches[b].status = "submitted" => batches[b].parts_chunk \cap persisted = {}

\* of two batches of several parts, one failed and the other committed: the
\* rows committed are those of the other
C20_Witness ==
  \E a, b \in DOMAIN batches :
    /\ batches[a].status = "failed"
    /\ batches[b].status = "committed"
    /\ Cardinality(batches[a].parts_chunk) > 1
    /\ persisted = batches[b].parts_chunk

====
